---- MODULE Spec2Model ----
(***************************************************************************)
(* Message dispatcher: the processing engine (fetch, deliver, persist),    *)
(* the message entity's state machine, the repository as the engine sees   *)
(* it, and the polling scheduler.                                          *)
(***************************************************************************)
EXTENDS Integers, Sequences, FiniteSets, TLC

(* ------------------------------------------------------------------ *)
(* Bounds of the model                                                 *)
(* ------------------------------------------------------------------ *)
NumMessages == 1
SmallBacklog == 2
MaxBacklog == 11
NumLoops == 2
MaxTotal == 2
MaxOps == 5
MaxConfiguredRetries == 2

(* ------------------------------------------------------------------ *)
(* Program constants                                                   *)
(* ------------------------------------------------------------------ *)
MaxRetryAttempts == 3
DefaultBatchSize == 2
MaxBatchSize == 10
SchedulerBatchSize == 2

StatusPending == "PENDING"
StatusSent == "SENT"
StatusFailed == "FAILED"

\* ExternalID *string and SentAt *time.Time are nil until the message is sent.
NoExternalID == "<nil>"
NoTime == -1

\* Two engine instances; the scheduler's loop goroutines run their passes
\* under their own slot number.
Workers == {1, 2}
Loops == 1..NumLoops
Callers == {"a", "b"}
Goroutines == Workers \cup Loops

VARIABLES
    now,        \* the wall clock read by time.Now()
    db,         \* the messages table: a sequence of rows (or NoRow once deleted)
    env,        \* what the collaborators do in this run (see WebhookMay)
    ent,        \* a message entity its operations are called on directly
    wk,         \* per engine pass (goroutine): its position and locals
    sched,      \* ProcessingScheduler: isRunning, stopChan, doneChan
    stats,      \* ProcessingStats
    loops,      \* the goroutines spawned by Start: position in run, ctx, ticker
    callers,    \* the goroutines calling Start and Stop: position, last result
    hc          \* one SendMessage call of the webhook client: config, loop, result

engineVars == <<now, db, env, ent, wk, hc>>
schedVars == <<sched, stats, loops, callers>>
vars == <<now, db, env, ent, wk, hc, sched, stats, loops, callers>>

NoRow == [id |-> 0]

(* ------------------------------------------------------------------ *)
(* Message entity                                                      *)
(* ------------------------------------------------------------------ *)
\* NewMessage that starts the message with one retry used.
NewMessageRetried(id, t) ==
    [id |-> id, status |-> StatusPending, externalID |-> NoExternalID,
     retryCount |-> 1, createdAt |-> t, updatedAt |-> t, sentAt |-> NoTime]

NewMessage(id, t) ==
    [id |-> id, status |-> StatusPending, externalID |-> NoExternalID,
     retryCount |-> 0, createdAt |-> t, updatedAt |-> t, sentAt |-> NoTime]

\* MarkAsSent that forgets the external id.
MarkAsSentNoExternalID(m, externalID, t) ==
    IF m.status # StatusPending
    THEN [err |-> "InvalidStatusTransition", msg |-> m]
    ELSE [err |-> "",
          msg |-> [m EXCEPT !.status = StatusSent, !.sentAt = t, !.updatedAt = t]]

\* MarkAsSent that leaves sentAt unset.
MarkAsSentNoSentAt(m, externalID, t) ==
    IF m.status # StatusPending
    THEN [err |-> "InvalidStatusTransition", msg |-> m]
    ELSE [err |-> "",
          msg |-> [m EXCEPT !.status = StatusSent, !.externalID = externalID,
                            !.updatedAt = t]]

\* MarkAsSent that refuses only a message already sent.
MarkAsSentFromFailed(m, externalID, t) ==
    IF m.status = StatusSent
    THEN [err |-> "InvalidStatusTransition", msg |-> m]
    ELSE [err |-> "",
          msg |-> [m EXCEPT !.status = StatusSent, !.externalID = externalID,
                            !.sentAt = t, !.updatedAt = t]]

MarkAsSent(m, externalID, t) ==
    IF m.status # StatusPending
    THEN [err |-> "InvalidStatusTransition", msg |-> m]
    ELSE [err |-> "",
          msg |-> [m EXCEPT !.status = StatusSent, !.externalID = externalID,
                            !.sentAt = t, !.updatedAt = t]]

\* MarkAsFailed that accepts a message in any status.
MarkAsFailedFromAny(m, t) ==
    [err |-> "", msg |-> [m EXCEPT !.status = StatusFailed, !.updatedAt = t]]

MarkAsFailed(m, t) ==
    IF m.status = StatusSent
    THEN [err |-> "InvalidStatusTransition", msg |-> m]
    ELSE [err |-> "", msg |-> [m EXCEPT !.status = StatusFailed, !.updatedAt = t]]

\* IncrementRetry that refuses the last retry of the budget.
IncrementRetryOffByOne(m, t) ==
    IF m.status # StatusPending /\ m.status # StatusFailed
    THEN [err |-> "InvalidRetryState", msg |-> m]
    ELSE IF m.retryCount + 1 >= MaxRetryAttempts
    THEN [err |-> "MaxRetriesExceeded", msg |-> m]
    ELSE [err |-> "",
          msg |-> [m EXCEPT !.retryCount = m.retryCount + 1, !.updatedAt = t]]

\* IncrementRetry without the limit.
IncrementRetryUncapped(m, t) ==
    IF m.status # StatusPending /\ m.status # StatusFailed
    THEN [err |-> "InvalidRetryState", msg |-> m]
    ELSE [err |-> "",
          msg |-> [m EXCEPT !.retryCount = m.retryCount + 1, !.updatedAt = t]]

\* IncrementRetry that refuses one call too late.
IncrementRetryLateCap(m, t) ==
    IF m.status # StatusPending /\ m.status # StatusFailed
    THEN [err |-> "InvalidRetryState", msg |-> m]
    ELSE IF m.retryCount > MaxRetryAttempts
    THEN [err |-> "MaxRetriesExceeded", msg |-> m]
    ELSE [err |-> "",
          msg |-> [m EXCEPT !.retryCount = m.retryCount + 1, !.updatedAt = t]]

\* IncrementRetry that looks at the retry budget before the status.
IncrementRetryBudgetFirst(m, t) ==
    IF m.retryCount >= MaxRetryAttempts
    THEN [err |-> "MaxRetriesExceeded", msg |-> m]
    ELSE IF m.status # StatusPending /\ m.status # StatusFailed
    THEN [err |-> "InvalidRetryState", msg |-> m]
    ELSE [err |-> "",
          msg |-> [m EXCEPT !.retryCount = m.retryCount + 1, !.updatedAt = t]]
IncrementRetry(m, t) ==
    IF m.status # StatusPending /\ m.status # StatusFailed
    THEN [err |-> "InvalidRetryState", msg |-> m]
    ELSE IF m.retryCount >= MaxRetryAttempts
    THEN [err |-> "MaxRetriesExceeded", msg |-> m]
    ELSE [err |-> "",
          msg |-> [m EXCEPT !.retryCount = m.retryCount + 1, !.updatedAt = t]]

\* CanRetry that holds for pending messages only.
CanRetryPendingOnly(m) ==
    m.status = StatusPending /\ m.retryCount < MaxRetryAttempts

CanRetry(m) ==
    (m.status = StatusPending \/ m.status = StatusFailed)
        /\ m.retryCount < MaxRetryAttempts

\* PhoneNumber.Validate and Content.Validate on the inputs of the model: an
\* empty value is refused.
Phones == {"+905551234567", ""}

Contents == {"Hello", ""}

PhoneValidate(phone) == IF phone = "" THEN "ValidationError" ELSE ""

ContentValidate(content) == IF content = "" THEN "ValidationError" ELSE ""

\* NewMessageID: uuid.New() never yields the empty id.
EmptyMessageID == 0

MessageIDs == {1, 2}

\* The external ids callers hand to MarkAsSent.
ExternalIDs == {"ext-1", ""}

\* No entity yet. msg is the entity, op the operation called on it last
\* with err the error it returned, n the number of MarkAsSent, MarkAsFailed
\* and IncrementRetry calls made on it, retriesOnly whether all of them
\* were IncrementRetry calls, can what CanRetry returned if it was called
\* since the last of them.
NoEntity ==
    [msg |-> NoRow, op |-> "", err |-> "", n |-> 0, retriesOnly |-> TRUE,
     can |-> ""]

\* Entity operations are called directly in runs without collaborators.
EntityRun == env = "none"

\* time.Now() of a call: the clock has advanced by dt since the call before.
ClockSteps == {0, 1}

(* ----- calls of the entity's operations ----- *)
CallNewMessage(phone, content, id, dt) ==
    /\ EntityRun
    /\ ent.msg = NoRow
    /\ LET verr == IF PhoneValidate(phone) # "" THEN PhoneValidate(phone)
                   ELSE ContentValidate(content)
       IN IF verr # ""
          THEN /\ ent' = [NoEntity EXCEPT !.op = "NewMessage", !.err = verr]
               /\ now' = now
          ELSE /\ ent' = [NoEntity EXCEPT !.op = "NewMessage",
                                          !.msg = NewMessage(id, now + dt)]
               /\ now' = now + dt
    /\ UNCHANGED <<db, env, hc, wk, schedVars>>

\* The entity after an operation that returned r = [err, msg].
Called(op, r) ==
    [msg |-> r.msg, op |-> op, err |-> r.err, n |-> ent.n + 1,
     retriesOnly |-> ent.retriesOnly /\ op = "IncrementRetry", can |-> ""]

CallMarkAsSent(externalID, dt) ==
    /\ EntityRun
    /\ ent.msg # NoRow /\ ent.n < MaxOps
    /\ ent' = Called("MarkAsSent", MarkAsSent(ent.msg, externalID, now + dt))
    /\ now' = now + dt
    /\ UNCHANGED <<db, env, hc, wk, schedVars>>

CallMarkAsFailed(dt) ==
    /\ EntityRun
    /\ ent.msg # NoRow /\ ent.n < MaxOps
    /\ ent' = Called("MarkAsFailed", MarkAsFailed(ent.msg, now + dt))
    /\ now' = now + dt
    /\ UNCHANGED <<db, env, hc, wk, schedVars>>

CallIncrementRetry(dt) ==
    /\ EntityRun
    /\ ent.msg # NoRow /\ ent.n < MaxOps
    /\ ent' = Called("IncrementRetry", IncrementRetry(ent.msg, now + dt))
    /\ now' = now + dt
    /\ UNCHANGED <<db, env, hc, wk, schedVars>>

CallCanRetry ==
    /\ EntityRun
    /\ ent.msg # NoRow
    /\ ent' = [ent EXCEPT !.can = IF CanRetry(ent.msg) THEN "true" ELSE "false"]
    /\ UNCHANGED <<now, db, env, hc, wk, schedVars>>

(* ------------------------------------------------------------------ *)
(* Repository                                                          *)
(* ------------------------------------------------------------------ *)
RowIds(d) == {i \in 1..Len(d) : d[i] # NoRow}

PendingIds(d) == {i \in RowIds(d) : d[i].status = StatusPending}

\* ORDER BY created_at DESC.
Newest(d, S) ==
    CHOOSE i \in S : \A j \in S :
        d[i].createdAt > d[j].createdAt
            \/ (d[i].createdAt = d[j].createdAt /\ i <= j)

\* ORDER BY created_at ASC: the not yet taken row with the least created_at
\* (ties broken by position, as a stable scan would).
Oldest(d, S) ==
    CHOOSE i \in S : \A j \in S :
        d[i].createdAt < d[j].createdAt
            \/ (d[i].createdAt = d[j].createdAt /\ i <= j)

RECURSIVE OrderedRows(_, _, _)
OrderedRows(d, S, limit) ==
    IF S = {} \/ limit <= 0 THEN <<>>
    ELSE LET i == Oldest(d, S)
         IN <<d[i]>> \o OrderedRows(d, S \ {i}, limit - 1)

\* SELECT ... WHERE status = 'PENDING' ORDER BY created_at ASC LIMIT limit
GetPendingMessages(d, limit) ==
    IF limit <= 0
    THEN [err |-> "Validation", rows |-> <<>>]
    ELSE [err |-> "", rows |-> OrderedRows(d, PendingIds(d), limit)]

\* UPDATE messages SET status, retry_count, updated_at, sent_at
\* [, external_id when msg.ExternalID != nil] WHERE id = msg.ID
UpdatedRow(row, m) ==
    [row EXCEPT !.status = m.status, !.retryCount = m.retryCount,
                !.updatedAt = m.updatedAt, !.sentAt = m.sentAt,
                !.externalID = IF m.externalID # NoExternalID
                               THEN m.externalID ELSE row.externalID]

RepoUpdate(d, m) ==
    IF m.id \notin RowIds(d)
    THEN [err |-> "NotFound", db |-> d]
    ELSE [err |-> "", db |-> [d EXCEPT ![m.id] = UpdatedRow(d[m.id], m)]]

(* ------------------------------------------------------------------ *)
(* Processing engine                                                   *)
(* ------------------------------------------------------------------ *)
\* What SendMessage can hand back: an error, or a parsed response.
WebhookResponses ==
    {[success |-> TRUE, externalID |-> "ext-1"],
     [success |-> FALSE, externalID |-> ""]}

NoResponse == [success |-> FALSE, externalID |-> NoExternalID]

WebhookError == [err |-> TRUE, resp |-> NoResponse]

WebhookResults ==
    {WebhookError} \cup {[err |-> FALSE, resp |-> r] : r \in WebhookResponses}

\* The collaborators' behaviour in a run: a webhook and a repository that
\* do anything ("any"), and a cache that does anything as well ("flaky"), a
\* webhook and a repository that always work ("up"), a webhook that always
\* fails ("down"), or a repository that always fails ("nodb").
WebhookMay(out) ==
    \/ env \in {"any", "flaky"}
    \/ env \in {"up", "nodb"} /\ ~out.err /\ out.resp.success
    \/ env = "down" /\ out.err

RepoMay(fails) ==
    \/ env \in {"any", "flaky"}
    \/ env \in {"up", "down"} /\ ~fails
    \/ env = "nodb" /\ fails

\* The ctx a pass hands to its collaborators is cancelled: the ctx of the
\* loop goroutine that runs the pass (passes called directly run under a
\* ctx nobody cancels).
CtxDone(w) == w \in Loops /\ loops[w].pc = "pass" /\ loops[w].ctxDone

\* pool.Query / pool.Exec under ctx: with ctx cancelled the call returns the
\* context's error and does nothing.
RepoCall(w, fails) == IF CtxDone(w) THEN fails ELSE RepoMay(fails)

\* SendMessage under ctx: with ctx cancelled client.Do returns an error and
\* SendMessage returns (nil, error).
WebhookCall(w, out) == IF CtxDone(w) THEN out.err ELSE WebhookMay(out)

\* The batch sizes callers pass in.
BatchSizes == {-1, 0, 1, 3, 10, 11, 99}

NoResult == [ProcessedCount |-> 0, SuccessCount |-> 0, FailedCount |-> 0,
             Errors |-> <<>>]

\* The locals of a pass (batchSize, batch, idx, resp, result, err; pending
\* is the webhook error processMessage returns once Update is through), and
\* a record of what the pass did: req the batch size asked for, avail the
\* size of the backlog the fetch saw, fetched the rows as fetched, sends the
\* ids handed to SendMessage with outs what it returned, updates the
\* messages handed to Update with the error it returned, overlap the passes
\* whose GetPendingMessages call was in progress while this one's ran,
\* cacheFailed the ids whose cache write returned an error, delivered the
\* ids whose delivery succeeded in an earlier pass of the same goroutine
\* (a history kept in the runs that set keep, those following one engine
\* instance from pass to pass).
IdleWorker ==
    [pc |-> "idle", req |-> 0, batchSize |-> 0, avail |-> 0,
     fetched |-> <<>>, batch |-> <<>>, idx |-> 0, pending |-> "",
     resp |-> NoResponse, result |-> NoResult, err |-> "",
     sends |-> <<>>, outs |-> <<>>, updates |-> <<>>, overlap |-> {},
     cacheFailed |-> {}, keep |-> FALSE, delivered |-> {}]

\* The ids pass s handed to SendMessage and got a success=true response for.
DeliveredIn(s) ==
    {s.sends[i] : i \in {j \in 1..Len(s.sends) :
                            ~s.outs[j].err /\ s.outs[j].resp.success}}

\* The locals of a goroutine between two passes: nothing of the pass is
\* kept but the record of its deliveries.
AfterPass(s) ==
    [IdleWorker EXCEPT
        !.keep = s.keep,
        !.delivered = IF s.keep THEN s.delivered \cup DeliveredIn(s) ELSE {}]

\* The clamp without its upper limit.
EffectiveBatchSizeNoCap(batchSize) ==
    IF batchSize <= 0 THEN DefaultBatchSize ELSE batchSize

EffectiveBatchSize(batchSize) ==
    LET b1 == IF batchSize <= 0 THEN DefaultBatchSize ELSE batchSize
    IN IF b1 > MaxBatchSize THEN MaxBatchSize ELSE b1

\* The loop body leaving the batch at the first message that fails.
AfterProcessMessageAbort(s, perr) ==
    IF perr # ""
    THEN [s EXCEPT !.result = [s.result EXCEPT
                                  !.FailedCount = @ + 1,
                                  !.Errors = Append(@, s.batch[s.idx].id)],
                   !.pending = "", !.resp = NoResponse,
                   !.err = perr, !.pc = "return"]
    ELSE [s EXCEPT !.result = [s.result EXCEPT !.SuccessCount = @ + 1],
                   !.idx = s.idx + 1, !.pending = "", !.resp = NoResponse,
                   !.pc = IF s.idx + 1 > Len(s.batch) THEN "return" ELSE "send"]

\* The loop body counting a failure without recording its error.
AfterProcessMessageNoErrorEntry(s, perr) ==
    LET res == IF perr # ""
               THEN [s.result EXCEPT !.FailedCount = @ + 1]
               ELSE [s.result EXCEPT !.SuccessCount = @ + 1]
    IN [s EXCEPT !.result = res,
                 !.idx = s.idx + 1,
                 !.pending = "",
                 !.resp = NoResponse,
                 !.pc = IF s.idx + 1 > Len(s.batch) THEN "return" ELSE "send"]

\* The loop body once processMessage has returned perr ("" for nil):
\* count the outcome and move to the next message of the batch.
AfterProcessMessage(s, perr) ==
    LET res == IF perr # ""
               THEN [s.result EXCEPT
                        !.FailedCount = @ + 1,
                        !.Errors = Append(@, s.batch[s.idx].id)]
               ELSE [s.result EXCEPT !.SuccessCount = @ + 1]
    IN [s EXCEPT !.result = res,
                 !.idx = s.idx + 1,
                 !.pending = "",
                 !.resp = NoResponse,
                 !.pc = IF s.idx + 1 > Len(s.batch) THEN "return" ELSE "send"]

\* processMessage leaving the message as it is when IncrementRetry refuses.
OnWebhookResultNoMarkFailed(s, out, t) ==
    LET m == s.batch[s.idx] IN
    IF out.err
    THEN LET r == IncrementRetry(m, t) IN
         [s EXCEPT !.batch[s.idx] = r.msg, !.pc = "update",
                   !.pending = "webhook call failed"]
    ELSE LET r == MarkAsSent(m, out.resp.externalID, t) IN
         IF r.err # ""
         THEN AfterProcessMessage(s, "failed to mark message as sent")
         ELSE [s EXCEPT !.batch[s.idx] = r.msg, !.pc = "update",
                        !.pending = "", !.resp = out.resp]

\* processMessage marking the message failed as soon as its retry budget
\* is used up by the increment.
OnWebhookResultFailWithLastRetry(s, out, t) ==
    LET m == s.batch[s.idx] IN
    IF out.err
    THEN LET r == IncrementRetry(m, t) IN
         IF r.err # "" \/ ~CanRetry(r.msg)
         THEN LET f == MarkAsFailed(r.msg, t) IN
              IF f.err # ""
              THEN AfterProcessMessage(s, "failed to mark message as failed")
              ELSE [s EXCEPT !.batch[s.idx] = f.msg, !.pc = "update",
                             !.pending = "webhook call failed"]
         ELSE [s EXCEPT !.batch[s.idx] = r.msg, !.pc = "update",
                        !.pending = "webhook call failed"]
    ELSE LET r == MarkAsSent(m, out.resp.externalID, t) IN
         IF r.err # ""
         THEN AfterProcessMessage(s, "failed to mark message as sent")
         ELSE [s EXCEPT !.batch[s.idx] = r.msg, !.pc = "update",
                        !.pending = "", !.resp = out.resp]

\* processMessage marking the message failed at its first failed delivery.
OnWebhookResultFailFirst(s, out, t) ==
    LET m == s.batch[s.idx] IN
    IF out.err
    THEN LET f == MarkAsFailed(m, t) IN
         IF f.err # ""
         THEN AfterProcessMessage(s, "failed to mark message as failed")
         ELSE [s EXCEPT !.batch[s.idx] = f.msg, !.pc = "update",
                        !.pending = "webhook call failed"]
    ELSE LET r == MarkAsSent(m, out.resp.externalID, t) IN
         IF r.err # ""
         THEN AfterProcessMessage(s, "failed to mark message as sent")
         ELSE [s EXCEPT !.batch[s.idx] = r.msg, !.pc = "update",
                        !.pending = "", !.resp = out.resp]

\* processMessage from the return of SendMessage up to the Update call.
OnWebhookResult(s, out, t) ==
    LET m == s.batch[s.idx] IN
    IF out.err
    THEN LET r == IncrementRetry(m, t) IN
         IF r.err # ""
         THEN LET f == MarkAsFailed(m, t) IN
              IF f.err # ""
              THEN AfterProcessMessage(s, "failed to mark message as failed")
              ELSE [s EXCEPT !.batch[s.idx] = f.msg, !.pc = "update",
                             !.pending = "webhook call failed"]
         ELSE [s EXCEPT !.batch[s.idx] = r.msg, !.pc = "update",
                        !.pending = "webhook call failed"]
    ELSE LET r == MarkAsSent(m, out.resp.externalID, t) IN
         IF r.err # ""
         THEN AfterProcessMessage(s, "failed to mark message as sent")
         ELSE [s EXCEPT !.batch[s.idx] = r.msg, !.pc = "update",
                        !.pending = "", !.resp = out.resp]

\* processMessage from the return of Update on.
OnUpdateResult(s, updateErr) ==
    IF updateErr # "" THEN AfterProcessMessage(s, updateErr)
    ELSE IF s.pending # "" THEN AfterProcessMessage(s, s.pending)
    ELSE [s EXCEPT !.pc = "cache"]

\* ProcessPendingMessages from the return of GetPendingMessages to the loop.
OnFetchResult(s, got) ==
    IF got.err # ""
    THEN [s EXCEPT !.pc = "return", !.err = got.err]
    ELSE [s EXCEPT !.fetched = got.rows, !.batch = got.rows, !.idx = 1,
                   !.result = [NoResult EXCEPT !.ProcessedCount = Len(got.rows)],
                   !.pc = IF Len(got.rows) = 0 THEN "return" ELSE "send"]

(* ----- the steps of one pass, w the goroutine running it ----- *)
ProcessPendingMessages(w, b) ==
    /\ wk[w].pc = "idle"
    /\ wk' = [wk EXCEPT ![w] = [AfterPass(wk[w]) EXCEPT
                                   !.pc = "fetch", !.req = b,
                                   !.batchSize = EffectiveBatchSize(b)]]
    /\ UNCHANGED <<now, db, env, hc, ent, schedVars>>

FetchPending(w, fails) ==
    /\ wk[w].pc = "fetch"
    /\ RepoCall(w, fails)
    /\ LET got == IF fails THEN [err |-> "query failed", rows |-> <<>>]
                  ELSE GetPendingMessages(db, wk[w].batchSize)
           s == [wk[w] EXCEPT
                    !.avail = Cardinality(PendingIds(db)),
                    !.overlap = {v \in Workers \ {w} : wk[v].pc = "fetch"}]
       IN wk' = [wk EXCEPT ![w] = OnFetchResult(s, got)]
    /\ UNCHANGED <<now, db, env, hc, ent, schedVars>>

SendMessage(w, out) ==
    /\ wk[w].pc = "send"
    /\ WebhookCall(w, out)
    /\ LET s == [wk[w] EXCEPT !.sends = Append(@, wk[w].batch[wk[w].idx].id),
                              !.outs = Append(@, out)]
       IN wk' = [wk EXCEPT ![w] = OnWebhookResult(s, out, now)]
    /\ UNCHANGED <<now, db, env, hc, ent, schedVars>>

Update(w, fails) ==
    /\ wk[w].pc = "update"
    /\ RepoCall(w, fails)
    /\ LET m == wk[w].batch[wk[w].idx]
           r == IF fails THEN [err |-> "exec failed", db |-> db]
                ELSE RepoUpdate(db, m)
           s == [wk[w] EXCEPT
                    !.updates = Append(@, [msg |-> m, err |-> r.err])]
       IN /\ db' = r.db
          /\ wk' = [wk EXCEPT ![w] = OnUpdateResult(s, r.err)]
    /\ UNCHANGED <<now, env, hc, ent, schedVars>>

\* The cache in a run: its writes fail only in the "flaky" runs.
CacheMay(fails) == env = "flaky" \/ ~fails

\* SetJSON under ctx: with ctx cancelled the call returns the context's error.
CacheCall(w, fails) == IF CtxDone(w) THEN fails ELSE CacheMay(fails)

\* processMessage from the return of SetJSON on, treating a cache error as
\* the message's failure.
OnCacheResultPropagate(s, cacheErr) == AfterProcessMessage(s, cacheErr)

\* processMessage from the return of SetJSON on: the error is logged and
\* processMessage returns nil.
OnCacheResult(s, cacheErr) == AfterProcessMessage(s, "")

\* The cache is written and never read back by the engine: only the
\* outcome of the write reaches it.
CacheSetJSON(w, fails) ==
    /\ wk[w].pc = "cache"
    /\ CacheCall(w, fails)
    /\ LET cacheErr == IF fails THEN "failed to cache" ELSE ""
           s == [wk[w] EXCEPT
                    !.cacheFailed = IF fails
                                    THEN @ \cup {wk[w].batch[wk[w].idx].id}
                                    ELSE @]
       IN wk' = [wk EXCEPT ![w] = OnCacheResult(s, cacheErr)]
    /\ UNCHANGED <<now, db, env, hc, ent, schedVars>>

Return(w) ==
    /\ wk[w].pc = "return"
    /\ wk' = [wk EXCEPT ![w] = AfterPass(wk[w])]
    /\ UNCHANGED <<now, db, env, hc, ent, schedVars>>

\* DeleteByID: the administrative removal of a row.
DeleteByID(id) ==
    /\ id \in RowIds(db)
    /\ db' = [db EXCEPT ![id] = NoRow]
    /\ UNCHANGED <<now, env, hc, ent, wk, schedVars>>

InitDb(n) == [i \in 1..n |-> NewMessage(i, i - 1)]

(* ------------------------------------------------------------------ *)
(* Scheduler                                                           *)
(* ------------------------------------------------------------------ *)
\* staleStart records whether stopChan was closed already when the last
\* Start set isRunning.
NewProcessingScheduler ==
    [isRunning |-> FALSE, stopChan |-> "open", doneChan |-> "open",
     panicked |-> FALSE, staleStart |-> FALSE]

NewStats ==
    [TotalProcessed |-> 0, TotalSuccessful |-> 0, TotalFailed |-> 0,
     IsCurrentlyProcessing |-> FALSE]

\* A slot no goroutine occupies; pc is the goroutine's position in run,
\* ctxDone whether the ctx it was started with is cancelled, passErr
\* whether its last call of ProcessPendingMessages returned an error (both
\* no longer recorded once the goroutine has left the loop, which reads
\* ctx last in the select), stale whether stopChan was closed already when
\* the Start that spawned the goroutine was called, req the HTTP request
\* whose context the goroutine was given as its ctx.
\* The context of no HTTP request: one the caller made itself.
NoRequest == ""

NoLoop == [pc |-> "none", ctxDone |-> FALSE, passErr |-> FALSE,
           stale |-> FALSE, req |-> NoRequest]

\* op and ret are the call a caller made last and what it returned.
IdleCaller == [pc |-> "idle", op |-> "", ret |-> ""]

SchedulerInit ==
    /\ sched = NewProcessingScheduler
    /\ stats = NewStats
    /\ loops = [l \in Loops |-> NoLoop]
    /\ callers = [c \in Callers |-> IdleCaller]

\* A goroutine that has been spawned and has not returned from run.
Live(l) == loops[l].pc # "none"

\* A goroutine inside run's loop: before the return that ends it.
InLoop(l) == loops[l].pc \in {"spawned", "pass", "select"}

FreeSlots == {l \in Loops : ~Live(l)}

\* The process runs until a goroutine panics.
Alive == ~sched.panicked

\* The test Start makes under mu.
StartRefusedMissing(s) == FALSE

StartRefused(s) == s.isRunning

\* The test Stop makes under mu.
StopRefusedMissing(s) == FALSE

StopRefused(s) == ~s.isRunning

\* Start up to the release of mu.
Start(c) ==
    /\ Alive
    /\ callers[c].pc = "idle"
    /\ IF StartRefused(sched)
       THEN /\ callers' = [callers EXCEPT ![c] =
                  [pc |-> "idle", op |-> "Start", ret |-> "already running"]]
            /\ UNCHANGED sched
       ELSE /\ sched' = [sched EXCEPT
                            !.isRunning = TRUE,
                            !.staleStart = sched.stopChan = "closed"]
            /\ callers' = [callers EXCEPT ![c] =
                  [pc |-> "go", op |-> "Start", ret |-> ""]]
    /\ UNCHANGED <<engineVars, stats, loops>>

\* go s.run(ctx); return nil
StartGo(c) ==
    /\ Alive
    /\ callers[c].pc = "go"
    /\ FreeSlots # {}
    /\ LET l == CHOOSE x \in FreeSlots : \A y \in FreeSlots : x <= y
       IN loops' = [loops EXCEPT ![l] =
              [NoLoop EXCEPT !.pc = "spawned",
                             !.stale = sched.staleStart,
                             !.req = IF callers[c].op = "StartScheduler"
                                     THEN c ELSE NoRequest]]
    /\ callers' = [callers EXCEPT ![c] =
          IF callers[c].op = "StartScheduler"
          THEN [@ EXCEPT !.pc = "respond"]
          ELSE [@ EXCEPT !.pc = "idle", !.ret = "nil"]]
    /\ UNCHANGED <<engineVars, sched, stats>>

\* Stop up to the release of mu.
Stop(c) ==
    /\ Alive
    /\ callers[c].pc = "idle"
    /\ callers' = [callers EXCEPT ![c] =
          IF StopRefused(sched)
          THEN [pc |-> "idle", op |-> "Stop", ret |-> "not running"]
          ELSE [pc |-> "close", op |-> "Stop", ret |-> ""]]
    /\ UNCHANGED <<engineVars, sched, stats, loops>>

\* close(s.stopChan): closing a closed channel panics, and the call ends
\* without returning.
StopClose(c) ==
    /\ Alive
    /\ callers[c].pc = "close"
    /\ IF sched.stopChan = "closed"
       THEN /\ callers' = [callers EXCEPT ![c] =
                  [@ EXCEPT !.pc = "idle", !.ret = "panic"]]
            /\ UNCHANGED sched
       ELSE /\ sched' = [sched EXCEPT !.stopChan = "closed"]
            /\ callers' = [callers EXCEPT ![c] = [@ EXCEPT !.pc = "wait"]]
    /\ UNCHANGED <<engineVars, stats, loops>>

\* case <-s.doneChan
StopDone(c) ==
    /\ Alive
    /\ callers[c].pc = "wait"
    /\ sched.doneChan = "closed"
    /\ callers' = [callers EXCEPT ![c] = [@ EXCEPT !.pc = "idle", !.ret = "nil"]]
    /\ UNCHANGED <<engineVars, sched, stats, loops>>

\* case <-time.After(30 * time.Second)
StopTimeout(c) ==
    /\ Alive
    /\ callers[c].pc = "wait"
    /\ callers' = [callers EXCEPT ![c] =
          [@ EXCEPT !.pc = "idle", !.ret = "timed out"]]
    /\ UNCHANGED <<engineVars, sched, stats, loops>>

\* processMessages up to its call of ProcessPendingMessages.
BeginPass(l) ==
    /\ stats' = [stats EXCEPT !.IsCurrentlyProcessing = TRUE]
    /\ wk' = [wk EXCEPT ![l] = [AfterPass(wk[l]) EXCEPT
                  !.pc = "fetch", !.req = SchedulerBatchSize,
                  !.batchSize = EffectiveBatchSize(SchedulerBatchSize)]]

\* run from its start (the ticker is created) into the immediate pass.
RunFirstPass(l) ==
    /\ Alive
    /\ loops[l].pc = "spawned"
    /\ loops' = [loops EXCEPT ![l] = [@ EXCEPT !.pc = "pass"]]
    /\ BeginPass(l)
    /\ UNCHANGED <<now, db, env, hc, ent, sched, callers>>

\* Where run goes once processMessages has returned, failed telling
\* whether ProcessPendingMessages returned an error: a pass that exits the
\* loop on an error.
NextAfterPassExitOnError(failed) == IF failed THEN "exit" ELSE "select"

\* Where run goes once processMessages has returned: the error was logged,
\* and the loop goes (back) to its select.
NextAfterPass(failed) == "select"

\* The statistics update that leaves the failures out.
UpdateStatisticsNoFailed(st, result) ==
    [st EXCEPT !.TotalProcessed = @ + result.ProcessedCount,
               !.TotalSuccessful = @ + result.SuccessCount]

\* The statistics update of processMessages, made under stats.mu.
UpdateStatistics(st, result) ==
    [st EXCEPT !.TotalProcessed = @ + result.ProcessedCount,
               !.TotalSuccessful = @ + result.SuccessCount,
               !.TotalFailed = @ + result.FailedCount]

\* The deferred function of processMessages leaving the flag as it is when
\* the pass returned an error.
PassDeferredNoResetOnError(st, failed) ==
    IF failed THEN st ELSE [st EXCEPT !.IsCurrentlyProcessing = FALSE]

\* The deferred function of processMessages: it runs on both returns.
PassDeferred(st, failed) == [st EXCEPT !.IsCurrentlyProcessing = FALSE]

\* processMessages from the return of ProcessPendingMessages, back in run.
EndPass(l) ==
    /\ Alive
    /\ loops[l].pc = "pass"
    /\ wk[l].pc = "return"
    /\ stats' = IF wk[l].err # ""
                THEN PassDeferred(stats, TRUE)
                ELSE PassDeferred(UpdateStatistics(stats, wk[l].result), FALSE)
    /\ wk' = [wk EXCEPT ![l] = AfterPass(wk[l])]
    /\ loops' = [loops EXCEPT ![l] =
          [@ EXCEPT !.pc = NextAfterPass(wk[l].err # ""),
                    !.passErr = wk[l].err # ""]]
    /\ UNCHANGED <<now, db, env, hc, ent, sched, callers>>

\* select: case <-ctx.Done()
SelectCtxDone(l) ==
    /\ Alive
    /\ loops[l].pc = "select"
    /\ loops[l].ctxDone
    /\ loops' = [loops EXCEPT ![l] = [NoLoop EXCEPT !.pc = "exit"]]
    /\ UNCHANGED <<engineVars, sched, stats, callers>>

\* select: case <-s.stopChan
SelectStop(l) ==
    /\ Alive
    /\ loops[l].pc = "select"
    /\ sched.stopChan = "closed"
    /\ loops' = [loops EXCEPT ![l] = [NoLoop EXCEPT !.pc = "exit"]]
    /\ UNCHANGED <<engineVars, sched, stats, callers>>

\* select: case <-ticker.C. The ticker fires at any time from its creation
\* on and its channel keeps one tick, so a tick can be ready whenever the
\* select is evaluated.
SelectTick(l) ==
    /\ Alive
    /\ loops[l].pc = "select"
    /\ stats.TotalProcessed < MaxTotal
    /\ loops' = [loops EXCEPT ![l] = [@ EXCEPT !.pc = "pass"]]
    /\ BeginPass(l)
    /\ UNCHANGED <<now, db, env, hc, ent, sched, callers>>

\* The deferred ticker.Stop() and s.isRunning = false.
RunExit(l) ==
    /\ Alive
    /\ loops[l].pc = "exit"
    /\ sched' = [sched EXCEPT !.isRunning = FALSE]
    /\ loops' = [loops EXCEPT ![l] = [@ EXCEPT !.pc = "closeDone"]]
    /\ UNCHANGED <<engineVars, stats, callers>>

\* The deferred close(s.doneChan): closing a closed channel panics, which
\* ends the process.
RunCloseDone(l) ==
    /\ Alive
    /\ loops[l].pc = "closeDone"
    /\ sched' = IF sched.doneChan = "closed"
                THEN [sched EXCEPT !.panicked = TRUE]
                ELSE [sched EXCEPT !.doneChan = "closed"]
    /\ loops' = [loops EXCEPT ![l] = NoLoop]
    /\ UNCHANGED <<engineVars, stats, callers>>

\* The context handed to Start is cancelled.
CancelContext(l) ==
    /\ Alive
    /\ InLoop(l)
    /\ ~loops[l].ctxDone
    /\ loops' = [loops EXCEPT ![l] = [@ EXCEPT !.ctxDone = TRUE]]
    /\ UNCHANGED <<engineVars, sched, stats, callers>>

(* ----- the StartScheduler HTTP handler, c the request ----- *)
\* StartScheduler up to the answer of IsRunning.
StartSchedulerHandler(c) ==
    /\ Alive
    /\ callers[c].pc = "idle"
    /\ callers' = [callers EXCEPT ![c] =
          IF sched.isRunning
          THEN [pc |-> "idle", op |-> "StartScheduler", ret |-> "409"]
          ELSE [pc |-> "start", op |-> "StartScheduler", ret |-> ""]]
    /\ UNCHANGED <<engineVars, sched, stats, loops>>

\* h.scheduler.Start(r.Context()) up to the release of mu; the spawn that
\* follows is StartGo.
StartSchedulerStart(c) ==
    /\ Alive
    /\ callers[c].pc = "start"
    /\ IF StartRefused(sched)
       THEN /\ callers' = [callers EXCEPT ![c] =
                  [pc |-> "idle", op |-> "StartScheduler", ret |-> "500"]]
            /\ UNCHANGED sched
       ELSE /\ sched' = [sched EXCEPT
                            !.isRunning = TRUE,
                            !.staleStart = sched.stopChan = "closed"]
            /\ callers' = [callers EXCEPT ![c] = [@ EXCEPT !.pc = "go"]]
    /\ UNCHANGED <<engineVars, stats, loops>>

\* The request's context once the handler has returned: the server cancels
\* it, for every goroutine that holds it.
RequestContextDone(ls, c) ==
    [l \in Loops |-> IF ls[l].req = c
                     THEN [ls[l] EXCEPT !.ctxDone = TRUE] ELSE ls[l]]

\* StartScheduler from the return of Start: the response is written and the
\* handler returns.
StartSchedulerReturn(c) ==
    /\ Alive
    /\ callers[c].pc = "respond"
    /\ callers' = [callers EXCEPT ![c] =
          [pc |-> "idle", op |-> "StartScheduler", ret |-> "200"]]
    /\ loops' = RequestContextDone(loops, c)
    /\ UNCHANGED <<engineVars, sched, stats>>

(* ------------------------------------------------------------------ *)
(* Webhook client (httpWebhookService)                                 *)
(* ------------------------------------------------------------------ *)
\* Durations are in milliseconds.
Second == 1000
DefaultMaxRetries == 3
DefaultBackoffMaxSeconds == 5

\* The configurations a service is constructed with. RetryBackoffMax is
\* read by calculateBackoffDelay; main.go never sets it, so the server runs
\* with 0 there.
URLs == {"", "http://hook", "::bad"}
BackoffBases == {0, 100, 3000}
BackoffMaxes == {0, 250}
WebhookConfigs ==
    [URL : URLs, MaxRetries : -1..MaxConfiguredRetries,
     RetryBackoffBase : BackoffBases, RetryBackoffMax : BackoffMaxes]

\* The two declarations of the domain error interfaces in the sources:
\* "plain" has ValidationError = interface{ error }, "marker" adds the
\* method IsValidationError() that only validationError implements.
ErrorDecls == {"plain", "marker"}

NoError == [type |-> "", msg |-> ""]
ValidationErr(msg) == [type |-> "validationError", msg |-> msg]
BusinessErr(msg) == [type |-> "businessError", msg |-> msg]

URLNotConfigured == ValidationErr("webhook URL is not configured")
CancelledDuringRetry == BusinessErr("webhook request cancelled during retry")
FailedAfterAttempts == BusinessErr("webhook request failed after attempts")

\* What one sendSingleRequest returns: a parsed response, or an error.
AttemptErrors ==
    { ValidationErr("failed to create HTTP request"),
      BusinessErr("HTTP request failed"),
      BusinessErr("failed to read response body"),
      BusinessErr("webhook returned HTTP status"),
      BusinessErr("failed to parse webhook response") }
AttemptResults ==
    [resp : WebhookResponses, err : {NoError}]
        \cup [resp : {NoResponse}, err : AttemptErrors]

\* http.NewRequestWithContext fails on a URL that does not parse, on every
\* attempt; with a cancelled ctx client.Do returns an error at once.
AttemptMay(s, out) ==
    IF s.cfg.URL = "::bad"
    THEN out.err = ValidationErr("failed to create HTTP request")
    ELSE /\ out.err # ValidationErr("failed to create HTTP request")
         /\ s.ctxDone => out.err = BusinessErr("HTTP request failed")

IdleClient ==
    [pc |-> "idle", cfg |-> [URL |-> "", MaxRetries |-> 0,
                             RetryBackoffBase |-> 0, RetryBackoffMax |-> 0],
     decl |-> "plain", ctxDone |-> FALSE, woken |-> "", attempt |-> 0,
     outcomes |-> <<>>, delays |-> <<>>, lastErr |-> NoError,
     resp |-> NoResponse, err |-> NoError, errAttempts |-> 0]

NewWebhookService(config, decl) ==
    [IdleClient EXCEPT !.cfg = config, !.decl = decl]

\* maxRetries of SendMessage.
MaxRetriesOf(cfg) ==
    IF cfg.MaxRetries <= 0 THEN DefaultMaxRetries ELSE cfg.MaxRetries

\* errors.As(err, &validationErr) with validationErr of the interface type
\* ValidationError: true when err's type is assignable to the interface.
ErrorsAsValidationError(decl, err) ==
    IF decl = "plain" THEN TRUE ELSE err.type = "validationError"

shouldRetryError(decl, err) == ~ErrorsAsValidationError(decl, err)

RECURSIVE Pow2(_)
Pow2(n) == IF n <= 0 THEN 1 ELSE 2 * Pow2(n - 1)

calculateBackoffDelayUncapped(cfg, attempt) ==
    LET baseDelay == IF cfg.RetryBackoffBase <= 0 THEN Second
                     ELSE cfg.RetryBackoffBase
    IN  baseDelay * Pow2(attempt - 1)

\* The float64 product is exact for durations below 2^53 ns times a power
\* of two, and the conversion back truncates nothing.
calculateBackoffDelay(cfg, attempt) ==
    LET baseDelay == IF cfg.RetryBackoffBase <= 0 THEN Second
                     ELSE cfg.RetryBackoffBase
        exponentialDelay == baseDelay * Pow2(attempt - 1)
        maxDelay == IF cfg.RetryBackoffMax <= 0
                    THEN DefaultBackoffMaxSeconds * Second
                    ELSE cfg.RetryBackoffMax
    IN  IF exponentialDelay > maxDelay THEN maxDelay ELSE exponentialDelay

\* return nil, err
ReturnError(s, err, n) ==
    [s EXCEPT !.pc = "done", !.err = err, !.errAttempts = n]

\* The return after the loop.
ReturnFailedAfterAttempts(s) ==
    ReturnError(s, FailedAfterAttempts, MaxRetriesOf(s.cfg) + 1)

\* The rest of the loop body once sendSingleRequest has returned out.
AfterAttempt(s, out) ==
    LET t == [s EXCEPT !.outcomes = Append(@, out)]
    IN  IF out.err = NoError
        THEN [t EXCEPT !.pc = "done", !.resp = out.resp]
        ELSE LET u == [t EXCEPT !.lastErr = out.err]
             IN  IF ~shouldRetryError(s.decl, out.err)
                 THEN ReturnFailedAfterAttempts(u)
                 ELSE IF s.attempt = MaxRetriesOf(s.cfg)
                 THEN ReturnFailedAfterAttempts(u)
                 ELSE [u EXCEPT !.pc = "backoff", !.attempt = @ + 1,
                          !.woken = "",
                          !.delays = Append(@,
                              calculateBackoffDelay(s.cfg, s.attempt + 1))]

\* case <-ctx.Done() leaving the loop for the return after it.
OnCtxDoneInBackoffBreak(s) == ReturnFailedAfterAttempts(s)

\* case <-ctx.Done() of the backoff select.
OnCtxDoneInBackoff(s) == ReturnError(s, CancelledDuringRetry, 0)

\* SendMessage is entered: the URL check, then the first attempt is due.
WebhookSendMessage ==
    /\ hc.pc = "idle"
    /\ hc' = IF hc.cfg.URL = ""
             THEN ReturnError(hc, URLNotConfigured, 0)
             ELSE [hc EXCEPT !.pc = "request"]
    /\ UNCHANGED <<now, db, env, ent, wk, schedVars>>

\* One HTTP attempt and what the loop does with its result.
sendSingleRequest(out) ==
    /\ hc.pc = "request"
    /\ AttemptMay(hc, out)
    /\ hc' = AfterAttempt(hc, out)
    /\ UNCHANGED <<now, db, env, ent, wk, schedVars>>

\* case <-time.After(delay): the timer fires while the goroutine waits in
\* the select (or both cases were ready when the select was entered).
BackoffTimeAfter ==
    /\ hc.pc = "backoff"
    /\ hc.woken # "ctx"
    /\ hc' = [hc EXCEPT !.pc = "request"]
    /\ UNCHANGED <<now, db, env, ent, wk, schedVars>>

BackoffCtxDone ==
    /\ hc.pc = "backoff"
    /\ hc.ctxDone
    /\ hc' = OnCtxDoneInBackoff(hc)
    /\ UNCHANGED <<now, db, env, ent, wk, schedVars>>

\* The caller's ctx is cancelled. A goroutine blocked in the backoff select
\* is woken by ctx.Done(): that case is then the one the select takes.
CancelSendContext ==
    /\ hc.pc \in {"idle", "request", "backoff"}
    /\ ~hc.ctxDone
    /\ hc' = [hc EXCEPT !.ctxDone = TRUE,
                        !.woken = IF hc.pc = "backoff" THEN "ctx" ELSE @]
    /\ UNCHANGED <<now, db, env, ent, wk, schedVars>>

(* ----- Spec: two engine instances against one repository ----- *)
Init ==
    /\ now = NumMessages
    /\ db = InitDb(NumMessages)
    /\ env = "any"
    /\ ent = NoEntity
    /\ hc = IdleClient
    /\ wk = [w \in Goroutines |-> IdleWorker]
    /\ SchedulerInit

Next ==
    \/ \E w \in Workers, b \in {0, 1} : ProcessPendingMessages(w, b)
    \/ \E w \in Workers, fails \in BOOLEAN : FetchPending(w, fails)
    \/ \E w \in Workers, out \in WebhookResults : SendMessage(w, out)
    \/ \E w \in Workers, fails \in BOOLEAN : Update(w, fails)
    \/ \E w \in Workers, fails \in BOOLEAN : CacheSetJSON(w, fails)
    \/ \E w \in Workers : Return(w)

Spec == Init /\ [][Next]_vars

(* ----- SpecBatch: one engine instance, backlogs of every size ----- *)
InitBatch ==
    /\ \E n \in 0..MaxBacklog :
          /\ db = InitDb(n)
          /\ now = n
          /\ \/ env \in {"up", "down"}
             \/ n <= SmallBacklog /\ env = "any"
    /\ ent = NoEntity
    /\ hc = IdleClient
    /\ wk = [w \in Goroutines |-> IdleWorker]
    /\ SchedulerInit

NextBatch ==
    \/ \E b \in BatchSizes : ProcessPendingMessages(1, b)
    \/ \E fails \in BOOLEAN : FetchPending(1, fails)
    \/ \E out \in WebhookResults : SendMessage(1, out)
    \/ \E fails \in BOOLEAN : Update(1, fails)
    \/ \E fails \in BOOLEAN : CacheSetJSON(1, fails)
    \/ Return(1)
    \/ \E id \in 1..SmallBacklog : env = "any" /\ DeleteByID(id)

SpecBatch == InitBatch /\ [][NextBatch]_vars

(* ----- SpecEntity: the operations of one message entity ----- *)
InitEntity ==
    /\ now = 0
    /\ db = <<>>
    /\ env = "none"
    /\ ent = NoEntity
    /\ hc = IdleClient
    /\ wk = [w \in Goroutines |-> IdleWorker]
    /\ SchedulerInit

NextEntity ==
    \/ \E phone \in Phones, content \in Contents, id \in MessageIDs,
          dt \in ClockSteps : CallNewMessage(phone, content, id, dt)
    \/ \E externalID \in ExternalIDs, dt \in ClockSteps :
          CallMarkAsSent(externalID, dt)
    \/ \E dt \in ClockSteps : CallMarkAsFailed(dt)
    \/ \E dt \in ClockSteps : CallIncrementRetry(dt)
    \/ CallCanRetry

SpecEntity == InitEntity /\ [][NextEntity]_vars

(* ----- SpecRetry: runs of entity operations, and runs of passes over a
   backlog with collaborators that do anything ----- *)
InitRetry == InitEntity \/ Init

NextRetry == NextEntity \/ NextBatch

SpecRetry == InitRetry /\ [][NextRetry]_vars

(* ----- SpecPass: passes of one engine instance over a small backlog, with
   a webhook, a repository and a cache that do anything ----- *)
PassBatchSizes == {0, 1, 3}

InitPass ==
    /\ \E n \in 0..SmallBacklog :
          /\ db = InitDb(n)
          /\ now = n
    /\ env = "flaky"
    /\ ent = NoEntity
    /\ hc = IdleClient
    /\ wk = [w \in Goroutines |-> [IdleWorker EXCEPT !.keep = TRUE]]
    /\ SchedulerInit

NextPass ==
    \/ \E b \in PassBatchSizes : ProcessPendingMessages(1, b)
    \/ \E fails \in BOOLEAN : FetchPending(1, fails)
    \/ \E out \in WebhookResults : SendMessage(1, out)
    \/ \E fails \in BOOLEAN : Update(1, fails)
    \/ \E fails \in BOOLEAN : CacheSetJSON(1, fails)
    \/ Return(1)

SpecPass == InitPass /\ [][NextPass]_vars

(* ----- SpecFair: passes of one engine instance that keep coming, over a
   repository that works and a webhook that always fails or always
   works ----- *)
InitFair ==
    /\ \E n \in 1..SmallBacklog :
          /\ db = InitDb(n)
          /\ now = n
    /\ env \in {"down", "up"}
    /\ ent = NoEntity
    /\ hc = IdleClient
    /\ wk = [w \in Goroutines |-> IdleWorker]
    /\ SchedulerInit

\* The caller (the scheduler's ticker) starts pass after pass and every call
\* of a pass returns: the one goroutine always takes its next step.
SpecFair == InitFair /\ [][NextPass]_vars /\ WF_vars(NextPass)

(* ----- SpecWebhook: one SendMessage call of a webhook client, for every
   configuration ----- *)
InitWebhook ==
    /\ now = 0
    /\ db = <<>>
    /\ env = "none"
    /\ ent = NoEntity
    /\ \E config \in WebhookConfigs, decl \in ErrorDecls :
          hc = NewWebhookService(config, decl)
    /\ wk = [w \in Goroutines |-> IdleWorker]
    /\ SchedulerInit

NextWebhook ==
    \/ WebhookSendMessage
    \/ \E out \in AttemptResults : sendSingleRequest(out)
    \/ BackoffTimeAfter
    \/ BackoffCtxDone
    \/ CancelSendContext

SpecWebhook == InitWebhook /\ [][NextWebhook]_vars

(* ----- SpecSched: the scheduler, its callers and its loop's passes ----- *)
\* The steps of the pass a loop goroutine is in.
PassFetch(l, fails) == Alive /\ loops[l].pc = "pass" /\ FetchPending(l, fails)
PassSend(l, out) == Alive /\ loops[l].pc = "pass" /\ SendMessage(l, out)
PassUpdate(l, fails) == Alive /\ loops[l].pc = "pass" /\ Update(l, fails)
PassCache(l, fails) == Alive /\ loops[l].pc = "pass" /\ CacheSetJSON(l, fails)

NextSched ==
    \/ \E c \in Callers : Start(c)
    \/ \E c \in Callers : StartGo(c)
    \/ \E c \in Callers : Stop(c)
    \/ \E c \in Callers : StopClose(c)
    \/ \E c \in Callers : StopDone(c)
    \/ \E c \in Callers : StopTimeout(c)
    \/ \E l \in Loops : RunFirstPass(l)
    \/ \E l \in Loops, fails \in BOOLEAN : PassFetch(l, fails)
    \/ \E l \in Loops, out \in WebhookResults : PassSend(l, out)
    \/ \E l \in Loops, fails \in BOOLEAN : PassUpdate(l, fails)
    \/ \E l \in Loops, fails \in BOOLEAN : PassCache(l, fails)
    \/ \E l \in Loops : EndPass(l)
    \/ \E l \in Loops : SelectCtxDone(l)
    \/ \E l \in Loops : SelectStop(l)
    \/ \E l \in Loops : SelectTick(l)
    \/ \E l \in Loops : RunExit(l)
    \/ \E l \in Loops : RunCloseDone(l)
    \/ \E l \in Loops : CancelContext(l)

\* One scheduler over one repository, in a run where the webhook and the
\* repository work, in a run where the webhook fails, or in a run where the
\* repository fails.
InitSched ==
    /\ now = NumMessages
    /\ db = InitDb(NumMessages)
    /\ env \in {"up", "down", "nodb"}
    /\ ent = NoEntity
    /\ hc = IdleClient
    /\ wk = [w \in Goroutines |-> IdleWorker]
    /\ SchedulerInit

SpecSched == InitSched /\ [][NextSched]_vars

(* ----- SpecHTTP: the scheduler started through the HTTP API ----- *)
NextHTTP ==
    \/ \E c \in Callers : StartSchedulerHandler(c)
    \/ \E c \in Callers : StartSchedulerStart(c)
    \/ \E c \in Callers : StartGo(c)
    \/ \E c \in Callers : StartSchedulerReturn(c)
    \/ \E c \in Callers : Stop(c)
    \/ \E c \in Callers : StopClose(c)
    \/ \E c \in Callers : StopDone(c)
    \/ \E c \in Callers : StopTimeout(c)
    \/ \E l \in Loops : RunFirstPass(l)
    \/ \E l \in Loops, fails \in BOOLEAN : PassFetch(l, fails)
    \/ \E l \in Loops, out \in WebhookResults : PassSend(l, out)
    \/ \E l \in Loops, fails \in BOOLEAN : PassUpdate(l, fails)
    \/ \E l \in Loops, fails \in BOOLEAN : PassCache(l, fails)
    \/ \E l \in Loops : EndPass(l)
    \/ \E l \in Loops : SelectCtxDone(l)
    \/ \E l \in Loops : SelectStop(l)
    \/ \E l \in Loops : SelectTick(l)
    \/ \E l \in Loops : RunExit(l)
    \/ \E l \in Loops : RunCloseDone(l)

\* The server once main has built the scheduler, started it with
\* context.Background() and begun to serve requests, over a webhook and a
\* repository that work.
InitHTTP ==
    /\ now = NumMessages
    /\ db = InitDb(NumMessages)
    /\ env = "up"
    /\ ent = NoEntity
    /\ hc = IdleClient
    /\ wk = [w \in Goroutines |-> IdleWorker]
    /\ sched = [NewProcessingScheduler EXCEPT !.isRunning = TRUE]
    /\ stats = NewStats
    /\ loops = [l \in Loops |->
                   IF l = 1 THEN [NoLoop EXCEPT !.pc = "spawned"] ELSE NoLoop]
    /\ callers = [c \in Callers |-> IdleCaller]

SpecHTTP == InitHTTP /\ [][NextHTTP]_vars

(* ------------------------------------------------------------------ *)
(* Properties                                                          *)
(* ------------------------------------------------------------------ *)
Ids(rows) == {rows[i].id : i \in 1..Len(rows)}

Range(seq) == {seq[i] : i \in 1..Len(seq)}

Min(a, b) == IF a <= b THEN a ELSE b

\* Two passes whose GetPendingMessages calls overlapped in time.
ConcurrentFetch(w, v) == v \in wk[w].overlap \/ w \in wk[v].overlap

\* The Update calls of pass w that carried message id.
UpdatesOf(w, id) ==
    {i \in 1..Len(wk[w].updates) : wk[w].updates[i].msg.id = id}

\* C1: two GetPendingMessages calls that executed concurrently against the
\* same backlog return disjoint sets of message ids.
C1_ConcurrentFetchesDisjoint ==
    \A w, v \in Workers :
        (w # v /\ ConcurrentFetch(w, v))
            => Ids(wk[w].fetched) \cap Ids(wk[v].fetched) = {}

\* C2: of two passes in progress at the same time, at most one hands a
\* given message id to SendMessage.
C2_NoDuplicateSendAcrossPasses ==
    \A w, v \in Workers :
        (w # v /\ wk[w].pc # "idle" /\ wk[v].pc # "idle")
            => Range(wk[w].sends) \cap Range(wk[v].sends) = {}

\* The messages of pass 1 that were fetched PENDING with retryCount r and
\* whose delivery failed, once the pass is over.
FailedDeliveryAt(r) ==
    {i \in 1..Len(wk[1].fetched) :
        /\ wk[1].pc = "return"
        /\ wk[1].fetched[i].status = StatusPending
        /\ wk[1].fetched[i].retryCount = r
        /\ wk[1].outs[i].err}

SentOnce(i) ==
    Cardinality({k \in 1..Len(wk[1].sends) :
                    wk[1].sends[k] = wk[1].fetched[i].id}) = 1

\* Message i of the pass, and the row Update stored for it, have this
\* status and retry count.
EndsAs(i, status, retryCount) ==
    /\ wk[1].batch[i].status = status
    /\ wk[1].batch[i].retryCount = retryCount
    /\ \A u \in UpdatesOf(1, wk[1].fetched[i].id) :
          /\ wk[1].updates[u].msg.status = status
          /\ wk[1].updates[u].msg.retryCount = retryCount
          /\ (wk[1].updates[u].err = "" /\ wk[1].fetched[i].id \in RowIds(db))
                => /\ db[wk[1].fetched[i].id].status = status
                   /\ db[wk[1].fetched[i].id].retryCount = retryCount

\* C3 as stated: a PENDING message fetched with retryCount = 2 whose delivery
\* fails ends the pass FAILED with retryCount = 3, after one attempt.
C3_Original_FailedAtThree ==
    \A i \in FailedDeliveryAt(2) : EndsAs(i, StatusFailed, 3) /\ SentOnce(i)

\* C3 (amended): a PENDING message fetched with retryCount = 2 whose delivery
\* fails ends the pass with retryCount = 3 and still PENDING, after one
\* attempt; fetched with retryCount = 3, it ends the pass FAILED with
\* retryCount = 3.
C3_PendingAtThree ==
    /\ \A i \in FailedDeliveryAt(2) : EndsAs(i, StatusPending, 3) /\ SentOnce(i)
    /\ \A i \in FailedDeliveryAt(3) : EndsAs(i, StatusFailed, 3) /\ SentOnce(i)

C3_Witness ==
    \E i \in FailedDeliveryAt(2) :
        /\ wk[1].batch[i].retryCount = 3
        /\ \E u \in UpdatesOf(1, wk[1].fetched[i].id) :
              wk[1].updates[u].err = ""

\* C4: a fetched message whose webhook call returned without error is SENT
\* with the response's external id, sentAt set and the retry count it was
\* fetched with; Update is handed exactly that state and stores it.
C4_SentStatePersisted ==
    \A i \in 1..Len(wk[1].outs) :
        ~wk[1].outs[i].err =>
            LET m == wk[1].batch[i]
                f == wk[1].fetched[i]
            IN /\ m.status = StatusSent
               /\ m.externalID = wk[1].outs[i].resp.externalID
               /\ m.sentAt # NoTime
               /\ m.retryCount = f.retryCount
               /\ \A u \in UpdatesOf(1, f.id) :
                     /\ wk[1].updates[u].msg = m
                     /\ (wk[1].updates[u].err = "" /\ f.id \in RowIds(db))
                           => /\ db[f.id].status = StatusSent
                              /\ db[f.id].externalID = m.externalID
                              /\ db[f.id].sentAt = m.sentAt
                              /\ db[f.id].retryCount = f.retryCount
               /\ (i < wk[1].idx \/ wk[1].pc = "cache")
                     => UpdatesOf(1, f.id) # {}

C4_Witness ==
    \E i \in 1..Len(wk[1].outs) :
        /\ ~wk[1].outs[i].err
        /\ wk[1].fetched[i].retryCount = 1
        /\ \E u \in UpdatesOf(1, wk[1].fetched[i].id) :
              /\ wk[1].updates[u].err = ""
              /\ db[wk[1].fetched[i].id].externalID = "ext-1"

\* The batch size the policy prescribes for a requested size b.
Eff(b) == IF b <= 0 THEN 2 ELSE IF b > 10 THEN 10 ELSE b

\* C5: a pass asked for batch size b that found n pending messages and
\* returns a result has processed exactly min(n, eff(b)) messages, and
\* never more than 10.
C5_ProcessesMinOfBacklogAndBatch ==
    (wk[1].pc = "return" /\ wk[1].err = "") =>
        /\ wk[1].result.ProcessedCount = Min(wk[1].avail, Eff(wk[1].req))
        /\ Len(wk[1].sends) = wk[1].result.ProcessedCount
        /\ wk[1].result.ProcessedCount <= 10

C5_Witness ==
    /\ wk[1].pc = "return"
    /\ wk[1].req = 99
    /\ wk[1].avail = 11
    /\ wk[1].result.ProcessedCount = 10
    /\ Len(wk[1].sends) = 10

\* C6: a pass whose fetch returned messages hands each of them to
\* SendMessage exactly once, in order, whatever became of the messages
\* before it, and returns a result, not an error.
C6_EveryFetchedMessageSentOnce ==
    /\ Len(wk[1].sends) <= Len(wk[1].fetched)
    /\ \A i \in 1..Len(wk[1].sends) : wk[1].sends[i] = wk[1].fetched[i].id
    /\ (wk[1].pc = "return" /\ Len(wk[1].fetched) > 0)
          => /\ wk[1].err = ""
             /\ Len(wk[1].sends) = Len(wk[1].fetched)
             /\ wk[1].result.ProcessedCount = Len(wk[1].fetched)

C6_Witness ==
    /\ wk[1].pc = "return"
    /\ Len(wk[1].fetched) = 2
    /\ Len(wk[1].sends) = 2
    /\ wk[1].outs[1].err
    /\ wk[1].updates[1].err # ""
    /\ wk[1].result.Errors = <<wk[1].fetched[1].id, wk[1].fetched[2].id>>

\* The goroutines inside the loop of run, and the Start calls that have
\* taken the scheduler and not yet spawned their goroutine.
LoopsInLoop == {l \in Loops : InLoop(l)}

StartsPending == {c \in Callers : callers[c].pc = "go"}

\* Caller c makes, in this step, the call op that finds the scheduler in
\* the state running.
Calls(c, op, running) ==
    /\ callers[c].pc = "idle"
    /\ callers'[c] # callers[c]
    /\ callers'[c].op = op
    /\ sched.isRunning = running

C8_StopWhenNotRunning ==
    [][\A c \in Callers :
          Calls(c, "Stop", FALSE) =>
              /\ callers'[c] = [pc |-> "idle", op |-> "Stop",
                                ret |-> "not running"]
              /\ \A d \in Callers \ {c} : callers'[d] = callers[d]
              /\ UNCHANGED <<sched, loops, stats, engineVars>>]_vars

C8_Witness ==
    \E c, d \in Callers :
        /\ callers[c].op = "Stop" /\ callers[c].ret = "not running"
        /\ callers[d].op = "Stop" /\ callers[d].ret = "nil"
        /\ ~sched.isRunning
        /\ sched.stopChan = "closed"

\* C9: once Stop has sent its signal or the loop's context is cancelled,
\* the loop begins no further pass.
C9_NoPassAfterStopOrCancel ==
    [][\A l \in Loops :
          (loops[l].pc = "select"
              /\ (sched.stopChan = "closed" \/ loops[l].ctxDone))
            => loops'[l].pc # "pass"]_vars

\* C10: when Stop returns nil, no goroutine of the scheduler is left in
\* run and isRunning is false.
C10_StopReturnsAfterLoopExit ==
    [][\A c \in Callers :
          (callers[c].pc = "wait" /\ callers'[c].pc = "idle"
              /\ callers'[c].ret = "nil")
            => /\ \A l \in Loops : loops'[l].pc = "none"
               /\ ~sched'.isRunning]_vars

\* Stop has sent its signal, or the ctx of loop goroutine l is cancelled.
StopSignalled(l) == sched.stopChan = "closed" \/ loops[l].ctxDone

\* C11 (the part about Stop): once Stop has sent its signal, the pass in
\* progress makes no further GetPendingMessages call and no further
\* SendMessage call; stated for a pass whose ctx is live, where every such
\* call reaches the database or the webhook.
C11_NoFetchOrSendAfterStop ==
    [][\A l \in Loops :
          (loops[l].pc = "pass" /\ sched.stopChan = "closed"
              /\ ~loops[l].ctxDone)
            => /\ ~(wk[l].pc = "fetch" /\ wk'[l].pc # "fetch")
               /\ Len(wk'[l].sends) <= Len(wk[l].sends)]_vars

\* C12 (the part about an obtained response): when SendMessage has
\* returned a response for a message and Stop is signalled or the ctx is
\* cancelled before the Update call, the Update call still stores the
\* message with the outcome applied to it.
C12_OutcomePersisted ==
    [][\A l \in Loops :
          (loops[l].pc = "pass" /\ StopSignalled(l)
              /\ wk[l].pc = "update" /\ wk'[l].pc # "update"
              /\ ~wk[l].outs[Len(wk[l].outs)].err)
            => LET m == wk[l].batch[wk[l].idx] IN
               /\ db'[m.id].status = m.status
               /\ db'[m.id].externalID = m.externalID
               /\ db'[m.id].retryCount = m.retryCount]_vars

\* C13: when ProcessPendingMessages returns an error to a scheduler pass,
\* the loop goes back to its select with the cumulative totals and the
\* scheduler's running state as they were.
C13_FailedPassContinues ==
    [][\A l \in Loops :
          (loops[l].pc = "pass" /\ wk[l].pc = "return" /\ wk[l].err # ""
              /\ wk'[l] # wk[l])
            => /\ loops'[l].pc = "select"
               /\ loops'[l].passErr
               /\ sched' = sched
               /\ stats'.TotalProcessed = stats.TotalProcessed
               /\ stats'.TotalSuccessful = stats.TotalSuccessful
               /\ stats'.TotalFailed = stats.TotalFailed]_vars

\* A tick has started the next pass after a pass whose fetch failed, the
\* scheduler still running.
C13_Witness ==
    \E l \in Loops :
        /\ env = "nodb"
        /\ loops[l].pc = "pass" /\ loops[l].passErr
        /\ wk[l].pc = "fetch"
        /\ sched.isRunning
        /\ stats.TotalProcessed = 0

\* C33: a scheduler that was started and stopped (or left through a
\* cancelled context) before can be started again: no step crashes the
\* process, and the loop a Start spawns leaves its loop only when its
\* context is cancelled or a Stop signals it after it was spawned.
C33_RestartedLoopKeepsRunning ==
    [][/\ ~sched'.panicked
       /\ \A l \in Loops :
             (loops[l].pc = "select" /\ loops'[l].pc = "exit") =>
                 loops[l].ctxDone \/ ~loops[l].stale]_vars

\* C34: with Stop called by several callers at once, or again after a
\* Stop that timed out, stopChan is closed at most once (no Stop call
\* reaches close(s.stopChan) with the channel closed) and every Stop call
\* returns nil or an error.
C34_StopSignalsAtMostOnce ==
    [][\A c \in Callers :
          (callers[c].pc = "close" /\ callers'[c] # callers[c]) =>
              /\ sched.stopChan = "open"
              /\ callers'[c].ret # "panic"]_vars

\* A message entity exists, and the step is a call of op on it.
HasEntity == ent.msg # NoRow

CallOf(op) == HasEntity /\ ent'.n = ent.n + 1 /\ ent'.op = op

LegalStatusChanges ==
    {<<StatusPending, StatusSent>>, <<StatusPending, StatusFailed>>,
     <<StatusFailed, StatusSent>>}

\* C14: every change of status made by MarkAsSent, MarkAsFailed or
\* IncrementRetry is PENDING->SENT, PENDING->FAILED or FAILED->SENT; in
\* particular no call changes the status of a SENT message.
C14_OnlyLegalStatusChanges ==
    [][(HasEntity /\ ent'.msg.status # ent.msg.status)
          => <<ent.msg.status, ent'.msg.status>> \in LegalStatusChanges]_vars

C14_Witness ==
    /\ HasEntity
    /\ ent.msg.status = StatusSent
    /\ ent.op = "MarkAsFailed"
    /\ ent.err = "InvalidStatusTransition"

\* C15: in every state of the entity, sentAt is set exactly when the status
\* is SENT, and externalID is set exactly when the status is SENT.
C15_SentFieldsIffSent ==
    HasEntity =>
        /\ (ent.msg.sentAt # NoTime) <=> (ent.msg.status = StatusSent)
        /\ (ent.msg.externalID # NoExternalID) <=> (ent.msg.status = StatusSent)

C15_Witness ==
    /\ HasEntity
    /\ ent.msg.status = StatusSent
    /\ ent.msg.externalID = ""
    /\ ent.msg.sentAt > ent.msg.createdAt
    /\ ent.op = "IncrementRetry"

\* C16: retryCount never exceeds MaxRetryAttempts: neither on the entity
\* after any sequence of its operations, nor in a stored row or in a
\* message held by a pass after any number of passes.
C16_RetryCountBounded ==
    /\ HasEntity => ent.msg.retryCount <= MaxRetryAttempts
    /\ \A i \in RowIds(db) : db[i].retryCount <= MaxRetryAttempts
    /\ \A w \in Goroutines : \A i \in 1..Len(wk[w].batch) :
          wk[w].batch[i].retryCount <= MaxRetryAttempts

\* A stored message whose delivery failed once more with the budget used up.
C16_Witness ==
    \E i \in RowIds(db) :
        /\ db[i].status = StatusFailed
        /\ db[i].retryCount = MaxRetryAttempts

\* C17: MarkAsSent succeeds exactly on a PENDING message; on a SENT or
\* FAILED one it returns InvalidStatusTransition and leaves the message as
\* it was.
C17_MarkAsSentOnlyFromPending ==
    [][CallOf("MarkAsSent") =>
          IF ent.msg.status = StatusPending
          THEN ent'.err = "" /\ ent'.msg.status = StatusSent
          ELSE ent'.err = "InvalidStatusTransition" /\ ent'.msg = ent.msg]_vars

C17_Witness ==
    /\ HasEntity
    /\ ent.msg.status = StatusFailed
    /\ ent.op = "MarkAsSent"
    /\ ent.err = "InvalidStatusTransition"

\* C18: on a new message on which only IncrementRetry has been called, n
\* times: up to n = MaxRetryAttempts the last call succeeded and retryCount
\* is n; from call MaxRetryAttempts + 1 on the call failed with
\* MaxRetriesExceeded and retryCount is MaxRetryAttempts.
C18_RetriesUpToMax ==
    (HasEntity /\ ent.retriesOnly /\ ent.n >= 1) =>
        IF ent.n <= MaxRetryAttempts
        THEN ent.err = "" /\ ent.msg.retryCount = ent.n
        ELSE /\ ent.err = "MaxRetriesExceeded"
             /\ ent.msg.retryCount = MaxRetryAttempts

C18_Witness ==
    /\ HasEntity /\ ent.retriesOnly
    /\ ent.n = MaxRetryAttempts + 1
    /\ ent.err = "MaxRetriesExceeded"
    /\ ent.msg.retryCount = MaxRetryAttempts

\* C19: CanRetry returns false exactly when the status is SENT or
\* retryCount has reached MaxRetryAttempts, and a CanRetry call leaves the
\* message as it was.
C19_CanRetryExact ==
    /\ [](ent.can # "" =>
            (ent.can = "false" <=>
                (ent.msg.status = StatusSent
                    \/ ent.msg.retryCount >= MaxRetryAttempts)))
    /\ [][(ent'.can # "" /\ ent' # ent) => ent'.msg = ent.msg]_vars

C19_Witness ==
    /\ HasEntity
    /\ ent.can = "true"
    /\ ent.msg.status = StatusFailed
    /\ ent.msg.retryCount = MaxRetryAttempts - 1

\* C20: NewMessage with a valid phone number and content yields a message
\* that is PENDING, has retryCount 0, a non-empty id, createdAt equal to
\* updatedAt, and neither externalID nor sentAt; with an invalid one it
\* yields no message.
C20_NewMessageFresh ==
    (ent.op = "NewMessage") =>
        /\ (ent.err = "") <=> HasEntity
        /\ HasEntity =>
              /\ ent.msg.status = StatusPending
              /\ ent.msg.retryCount = 0
              /\ ent.msg.id # EmptyMessageID
              /\ ent.msg.createdAt = ent.msg.updatedAt
              /\ ent.msg.externalID = NoExternalID
              /\ ent.msg.sentAt = NoTime

C20_Witness ==
    /\ HasEntity
    /\ ent.op = "NewMessage" /\ ent.err = ""
    /\ ent.msg.createdAt = 1

(* ------------------------------------------------------------------ *)
(* Webhook client claims                                               *)
(* ------------------------------------------------------------------ *)
\* The failures the retry protocol is meant to retry: a transport error, a
\* body that cannot be read, a non-2xx status, a body that does not parse.
RetryableFailures ==
    { BusinessErr("HTTP request failed"),
      BusinessErr("failed to read response body"),
      BusinessErr("webhook returned HTTP status"),
      BusinessErr("failed to parse webhook response") }

Attempts == Len(hc.outcomes)

AllAttemptsFailedRetryably ==
    /\ Attempts >= 1
    /\ \A i \in 1..Attempts : hc.outcomes[i].err \in RetryableFailures

\* C21: one SendMessage call makes at most maxRetries+1 HTTP attempts; it
\* stops at the first attempt that succeeds; and when every attempt fails
\* with a retryable failure and the context is not cancelled, it returns an
\* error after exactly maxRetries+1 attempts.
C21_AttemptsUpToMaxRetriesPlusOne ==
    /\ Attempts <= MaxRetriesOf(hc.cfg) + 1
    /\ \A i \in 1..Attempts :
          hc.outcomes[i].err = NoError =>
              i = Attempts /\ hc.pc = "done" /\ hc.err = NoError
    /\ (hc.pc = "done" /\ ~hc.ctxDone /\ AllAttemptsFailedRetryably) =>
          /\ Attempts = MaxRetriesOf(hc.cfg) + 1
          /\ hc.err = FailedAfterAttempts

\* C22: when an attempt's response parses but reports success=false,
\* SendMessage makes no further attempt and returns an error to its caller.
C22_RejectedResponseReturnsError ==
    \A i \in 1..Attempts :
        (hc.outcomes[i].err = NoError /\ ~hc.outcomes[i].resp.success) =>
            /\ i = Attempts
            /\ hc.pc = "done"
            /\ hc.err # NoError

\* C23: once the context is cancelled while SendMessage waits in a backoff
\* delay, SendMessage makes no further HTTP attempt and its next step is
\* to return the cancellation error, which is not the error returned when
\* the attempts are exhausted.
C23_CancelledInBackoffReturnsCancellation ==
    hc.woken = "ctx" =>
        /\ hc.pc \in {"backoff", "done"}
        /\ Attempts = hc.attempt
        /\ hc.pc = "done" =>
              /\ hc.err = CancelledDuringRetry
              /\ hc.err # FailedAfterAttempts
              /\ hc.resp = NoResponse

C23_Witness ==
    /\ hc.woken = "ctx"
    /\ hc.pc = "done"
    /\ hc.err = CancelledDuringRetry
    /\ Attempts = 2

\* baseDelay and maxDelay as calculateBackoffDelay uses them: the
\* configured values, or one and five seconds where none is configured.
BaseDelay ==
    IF hc.cfg.RetryBackoffBase > 0 THEN hc.cfg.RetryBackoffBase ELSE 1000
MaxDelay ==
    IF hc.cfg.RetryBackoffMax > 0 THEN hc.cfg.RetryBackoffMax ELSE 5000

\* C24: the delay before retry attempt k >= 1 is
\* min(baseDelay * 2^(k-1), maxDelay); the delays of one call never
\* decrease and never exceed maxDelay.
C24_BackoffDelayExponentialCapped ==
    /\ Len(hc.delays) = hc.attempt
    /\ \A k \in 1..Len(hc.delays) :
          /\ hc.delays[k] = Min(BaseDelay * 2^(k - 1), MaxDelay)
          /\ hc.delays[k] <= MaxDelay
          /\ k > 1 => hc.delays[k - 1] <= hc.delays[k]

C24_Witness ==
    /\ Len(hc.delays) = 3
    /\ hc.delays[1] < hc.delays[2]
    /\ hc.delays[2] < hc.delays[3]
    /\ hc.delays[3] = MaxDelay
    /\ BaseDelay * 4 > MaxDelay

\* C32: when SendMessage returns the aggregated failure error, the number
\* of attempts the error names is the number of HTTP attempts the call
\* made, and the cause it names is the error of the last attempt, also when
\* the loop ended early on an error that is not retried.
C32_FailureErrorNamesAttemptsMade ==
    (hc.pc = "done" /\ hc.err = FailedAfterAttempts) =>
        /\ Attempts >= 1
        /\ hc.errAttempts = Attempts
        /\ hc.lastErr = hc.outcomes[Attempts].err

(* ------------------------------------------------------------------ *)
(* Processing engine claims, second part                               *)
(* ------------------------------------------------------------------ *)
\* The place of message id in the batch a pass fetched (0 when absent).
PlaceOf(s, id) ==
    IF id \in Ids(s.fetched)
    THEN CHOOSE i \in 1..Len(s.fetched) : s.fetched[i].id = id
    ELSE 0

\* C25: a cache write that fails after a successful delivery leaves the
\* message persisted as SENT, counted in SuccessCount and absent from
\* Errors, and the pass goes on to the following messages of the batch.
C25_CacheFailureIgnored ==
    \A w \in Goroutines : \A id \in wk[w].cacheFailed :
        LET s == wk[w] IN
        /\ id \in RowIds(db) => db[id].status = StatusSent
        /\ \E j \in 1..Len(s.updates) :
              /\ s.updates[j].msg.id = id
              /\ s.updates[j].msg.status = StatusSent
              /\ s.updates[j].err = ""
        /\ id \notin Range(s.result.Errors)
        /\ s.result.SuccessCount >= Cardinality(s.cacheFailed)
        /\ s.result.SuccessCount + s.result.FailedCount = s.idx - 1
        /\ s.idx > PlaceOf(s, id)
        /\ s.pc = "return" => s.idx = Len(s.fetched) + 1
        /\ s.pc # "return" => s.pc \in {"send", "update", "cache"}

C25_Witness ==
    /\ wk[1].pc = "return"
    /\ wk[1].cacheFailed = {1}
    /\ wk[1].sends = <<1, 2>>
    /\ wk[1].result.SuccessCount = 2
    /\ wk[1].result.Errors = <<>>

\* C27: a result ProcessPendingMessages returns has
\* SuccessCount + FailedCount = ProcessedCount = the number of messages
\* fetched, and as many Errors as FailedCount.
C27_ResultCountsAddUp ==
    \A w \in Goroutines :
        (wk[w].pc = "return" /\ wk[w].err = "") =>
            LET r == wk[w].result IN
            /\ r.SuccessCount + r.FailedCount = r.ProcessedCount
            /\ r.ProcessedCount = Len(wk[w].fetched)
            /\ Len(r.Errors) = r.FailedCount

C27_Witness ==
    /\ wk[1].pc = "return"
    /\ wk[1].err = ""
    /\ wk[1].result.SuccessCount = 1
    /\ wk[1].result.FailedCount = 1
    /\ wk[1].result.ProcessedCount = 2

\* C28: one pass handles its batch one message at a time in fetch order,
\* oldest first: the k-th webhook call is for the k-th fetched message, and
\* it is made only when every earlier message's delivery has returned and
\* its Update has been called and has returned.
C28_BatchSequentialInFetchOrder ==
    \A w \in Goroutines :
        LET s == wk[w] IN
        /\ \A i \in 1..(Len(s.fetched) - 1) :
              s.fetched[i].createdAt <= s.fetched[i + 1].createdAt
        /\ \A i \in 1..Len(s.sends) : s.sends[i] = s.fetched[i].id
        /\ Len(s.outs) = Len(s.sends)
        /\ \A i \in 1..Len(s.updates) : s.updates[i].msg.id = s.fetched[i].id
        /\ Len(s.updates) \in {Len(s.sends) - 1, Len(s.sends)}
        /\ Len(s.updates) < Len(s.sends) =>
              s.pc = "update" /\ s.idx = Len(s.sends)
        /\ s.pc = "send" => s.idx = Len(s.sends) + 1

C28_Witness ==
    /\ wk[1].sends = <<1, 2>>
    /\ Len(wk[1].updates) = 2
    /\ wk[1].outs[1].err
    /\ ~wk[1].outs[2].err

\* C29: when the webhook call for a fetched message fails, the message
\* handed to Update has retryCount one higher and the status it was fetched
\* with if its retryCount was below the maximum, and status FAILED with the
\* retryCount it was fetched with otherwise; Update is called exactly once
\* for it.
C29_FailedDeliveryPersisted ==
    \A w \in Goroutines :
        LET s == wk[w] IN
        \A i \in 1..Len(s.sends) :
            (s.outs[i].err /\ (s.idx > i \/ s.pc \in {"return", "idle"})) =>
                LET f == s.fetched[i]
                    U == {j \in 1..Len(s.updates) : s.updates[j].msg.id = f.id}
                IN  /\ Cardinality(U) = 1
                    /\ \A j \in U :
                          LET u == s.updates[j].msg IN
                          IF f.retryCount < MaxRetryAttempts
                          THEN /\ u.retryCount = f.retryCount + 1
                               /\ u.status = f.status
                          ELSE /\ u.status = StatusFailed
                               /\ u.retryCount = f.retryCount

C29_Witness ==
    /\ wk[1].pc = "return"
    /\ Len(wk[1].updates) = 2
    /\ wk[1].outs[1].err
    /\ wk[1].outs[2].err
    /\ wk[1].fetched[1].retryCount = MaxRetryAttempts
    /\ wk[1].updates[1].msg.status = StatusFailed
    /\ wk[1].fetched[2].retryCount < MaxRetryAttempts
    /\ wk[1].updates[2].msg.status = StatusPending

\* C30: a message the engine has put in status FAILED has retryCount equal
\* to the maximum, in the row and in what was handed to Update.
C30_FailedOnlyAtMaxRetries ==
    /\ \A id \in RowIds(db) :
          db[id].status = StatusFailed => db[id].retryCount = MaxRetryAttempts
    /\ \A w \in Goroutines : \A j \in 1..Len(wk[w].updates) :
          wk[w].updates[j].msg.status = StatusFailed =>
              wk[w].updates[j].msg.retryCount = MaxRetryAttempts

C30_Witness ==
    \E id \in RowIds(db) :
        /\ db[id].status = StatusFailed
        /\ db[id].retryCount = MaxRetryAttempts
        /\ wk[1].pc = "return"
        /\ Len(wk[1].updates) >= 1

\* C26: with passes that keep coming and a repository that works, a
\* PENDING message whose every delivery fails is FAILED in the end; and a
\* FAILED message stays FAILED, is in no later fetch and is handed to no
\* later webhook call.
C26_FailingMessageEndsFailed ==
    /\ \A id \in 1..SmallBacklog :
          (env = "down" /\ id \in PendingIds(db))
              ~> (id \in RowIds(db) /\ db[id].status = StatusFailed)
    /\ [][\A id \in RowIds(db) :
             db[id].status = StatusFailed =>
                 /\ db'[id].status = StatusFailed
                 /\ wk[1].pc = "fetch" => id \notin Ids(wk'[1].fetched)
                 /\ Len(wk'[1].sends) > Len(wk[1].sends) =>
                       wk'[1].sends[Len(wk'[1].sends)] # id]_vars

C26_Witness ==
    /\ env = "down"
    /\ 1 \in RowIds(db)
    /\ db[1].status = StatusFailed
    /\ db[1].retryCount = MaxRetryAttempts
    /\ wk[1].fetched # <<>>
    /\ wk[1].sends = <<2>>

(* ------------------------------------------------------------------ *)
(* Message entity claims, second part                                  *)
(* ------------------------------------------------------------------ *)
\* C31: MarkAsFailed on a SENT message, IncrementRetry on a SENT message
\* and IncrementRetry on a message whose retryCount has reached the maximum
\* return an error and leave every field of the message as it was;
\* IncrementRetry on a SENT message reports InvalidRetryState, also when
\* its retryCount is at the maximum.
C31_RefusedCallsChangeNothing ==
    [][/\ (CallOf("MarkAsFailed") /\ ent.msg.status = StatusSent) =>
              /\ ent'.err = "InvalidStatusTransition"
              /\ ent'.msg = ent.msg
       /\ (CallOf("IncrementRetry") /\ ent.msg.status = StatusSent) =>
              /\ ent'.err = "InvalidRetryState"
              /\ ent'.msg = ent.msg
       /\ (CallOf("IncrementRetry") /\ ent.msg.status # StatusSent
               /\ ent.msg.retryCount >= MaxRetryAttempts) =>
              /\ ent'.err = "MaxRetriesExceeded"
              /\ ent'.msg = ent.msg]_vars

C31_Witness ==
    /\ HasEntity
    /\ ent.op = "IncrementRetry"
    /\ ent.err = "InvalidRetryState"
    /\ ent.msg.status = StatusSent
    /\ ent.msg.retryCount = MaxRetryAttempts
    /\ ent.msg.updatedAt < now

\* C35: the engine hands a message to Update in status SENT only if the
\* webhook response for that message reported success=true.
C35_SentOnlyOnSuccessResponse ==
    \A w \in Goroutines : \A i \in 1..Len(wk[w].updates) :
        wk[w].updates[i].msg.status = StatusSent =>
            /\ ~wk[w].outs[i].err
            /\ wk[w].outs[i].resp.success


\* C36: a pass of an engine instance hands to SendMessage no message whose
\* delivery succeeded in an earlier pass of that instance, whatever the
\* Update that followed the delivery returned.
C36_DeliveredNeverSentAgain ==
    \A w \in Workers :
        wk[w].keep => Range(wk[w].sends) \cap wk[w].delivered = {}

\* C37: once the repository holds a row with status SENT, no Update of any
\* pass changes the row's status, externalId or sentAt, also when the pass
\* fetched the message while it was PENDING.
C37_SentRowNeverOverwritten ==
    [][\A id \in RowIds(db) :
          (db[id].status = StatusSent /\ id \in RowIds(db')) =>
              /\ db'[id].status = StatusSent
              /\ db'[id].externalID = db[id].externalID
              /\ db'[id].sentAt = db[id].sentAt]_vars

(* ------------------------------------------------------------------ *)
(* Scheduler statistics claims                                         *)
(* ------------------------------------------------------------------ *)
\* What GetStats returns is the value of stats at the moment of the call.
TotalsAddUp(st) == st.TotalProcessed = st.TotalSuccessful + st.TotalFailed

\* C38: every value the statistics take has
\* TotalProcessed = TotalSuccessful + TotalFailed, and from one value to the
\* next none of the three totals decreases.
C38_StatsTotalsConsistent ==
    [][/\ TotalsAddUp(stats) /\ TotalsAddUp(stats')
       /\ stats'.TotalProcessed >= stats.TotalProcessed
       /\ stats'.TotalSuccessful >= stats.TotalSuccessful
       /\ stats'.TotalFailed >= stats.TotalFailed]_vars

C38_Witness ==
    /\ \E l \in Loops : InLoop(l)
    /\ stats.TotalProcessed = MaxTotal
    /\ stats.TotalFailed = MaxTotal

\* C39: while the process runs, IsCurrentlyProcessing is TRUE exactly when
\* a loop goroutine is inside processMessages: FALSE before the first pass,
\* FALSE after a pass that succeeded or returned an error, FALSE once the
\* loop has exited.
C39_ProcessingFlagTracksPass ==
    Alive => (stats.IsCurrentlyProcessing <=>
                 \E l \in Loops : loops[l].pc = "pass")

C39_Witness ==
    /\ Alive
    /\ ~stats.IsCurrentlyProcessing
    /\ \E l \in Loops : loops[l].pc = "select" /\ loops[l].passErr

\* C40: a loop started through the StartScheduler handler leaves its
\* select for the exit of run only once Stop has been invoked after the
\* Start that spawned it (the stop channel, open at that Start, is closed):
\* the end of the request that started it does not end it.
C40_HTTPStartedLoopOutlivesRequest ==
    [][\A l \in Loops :
          (loops[l].req # NoRequest /\ loops[l].pc = "select"
              /\ loops'[l].pc = "exit")
            => (sched.stopChan = "closed" /\ ~loops[l].stale)]_vars

====
